---- MODULE Spec2Model ----
(***************************************************************************)
(* Model of the GraphVisualization React component (graph-explorer).       *)
(*                                                                         *)
(* The component source is the first component listing in                  *)
(* src/src/components/GraphVisualization.test.jsx (lines 323-1111).        *)
(*                                                                         *)
(* Conventions                                                             *)
(*   - a JavaScript string is a sequence of one-character strings, so      *)
(*     that replace(), endsWith(), toLowerCase() and charCodeAt() are      *)
(*     computed and not assumed;                                           *)
(*   - a value that may be null is a sequence of length 0 (null) or 1;     *)
(*   - a cell value is a record [t, s]: its JavaScript type and the        *)
(*     result of String(value);                                            *)
(*   - opacities are in tenths (0.6 is 6), the simulation's alphaTarget    *)
(*     too (0.3 is 3);                                                     *)
(*   - the state setters of one handler are applied as one batch; the      *)
(*     effects whose dependencies changed then run (pendingBuild,          *)
(*     pendingRender) before any other event is handled.                   *)
(***************************************************************************)
EXTENDS Integers, Sequences, FiniteSets, TLC

VARIABLES
  file,             \* useState(null): name of the uploaded file
  data,             \* useState(null): the rows
  columns,          \* useState([])
  sourceColumn,     \* useState('')
  targetColumn,     \* useState('')
  edgeTypeColumn,   \* useState('')
  graphData,        \* useState(null): the published GraphModel
  loading,          \* useState(false)
  error,            \* useState(null)
  highlightedType,  \* useState(null)
  directedEdges,    \* useState(true)
  reader,           \* FileReader reads in flight
  fetches,          \* sample fetches in flight
  requested,        \* history: the rows of the load requested last, while
                    \* a load is in flight
  mounted,          \* "mounting" until the mount effect has run, "mounted",
                    \* then "unmounted"
  pendingBuild,     \* the graph build effect has to run
  pendingRender,    \* the render effect has to run
  view,             \* what the last run of the render effect created
  linkAttr,         \* per link: stroke-width and stroke-opacity
  nodeOpacity,      \* per node group: style opacity
  hover,            \* the element under the pointer
  zoomTransform,    \* the transform the zoom behaviour keeps on the svg
  groupTransform,   \* the transform attribute of the drawing group
  simulation,       \* the d3 force simulation of the last render
  pos,              \* per node: x, y, fx, fy (fields d3 keeps on the node)
  held,             \* the drag gesture in progress
  leaked,           \* a simulation of an earlier render still has its timer
  clicks            \* history: legend clicks since the filter was last Idle

reactState == <<file, data, columns, sourceColumn, targetColumn, edgeTypeColumn,
                graphData, loading, error, highlightedType, directedEdges>>
asyncState == <<reader, fetches, mounted, requested>>
zoomState == <<zoomTransform, groupTransform>>
domState == <<view, linkAttr, nodeOpacity, hover, zoomState>>
simState == <<simulation, pos, held, leaked>>
vars == <<reactState, asyncState, pendingBuild, pendingRender, domState,
          simState, clicks>>

----------------------------------------------------------------------------
(* Nullable values *)

None == <<>>
Some(x) == <<x>>
IsNone(o) == o = <<>>
The(o) == o[1]

----------------------------------------------------------------------------
(* JavaScript values held by the cells of a row *)

StrV(s) == [t |-> "string", s |-> s]
NumV(s) == [t |-> "number", s |-> s]
BoolV(s) == [t |-> "boolean", s |-> s]
NullV == [t |-> "null", s |-> <<"n", "u", "l", "l">>]
Undefined == [t |-> "undefined", s |-> <<"u", "n", "d", "e", "f">>]

\* the condition of `row[col] ? ... : ...`
Truthy(v) ==
  CASE v.t = "string" -> v.s # <<>>
    [] v.t = "number" -> v.s # <<"0">>
    [] v.t = "boolean" -> v.s = <<"t", "r", "u", "e">>
    [] OTHER -> FALSE

\* String(value)
String(v) == v.s

\* the printable ASCII characters, from code 32 (space) to code 126 (the
\* double quote, the backslash and the backtick stand in the table under
\* their names)
Ascii ==
  <<
     " ", "!", "quote", "#", "$", "%", "&", "'", "(", ")", "*", "+",
     ",", "-", ".", "/", "0", "1", "2", "3", "4", "5", "6", "7",
     "8", "9", ":", ";", "<", "=", ">", "?", "@", "A", "B", "C",
     "D", "E", "F", "G", "H", "I", "J", "K", "L", "M", "N", "O",
     "P", "Q", "R", "S", "T", "U", "V", "W", "X", "Y", "Z", "[",
     "backslash", "]", "^", "_", "backtick", "a", "b", "c", "d", "e", "f", "g",
     "h", "i", "j", "k", "l", "m", "n", "o", "p", "q", "r", "s",
     "t", "u", "v", "w", "x", "y", "z", "{", "|", "}", "~" >>

\* s.charCodeAt(0)
charCodeAt0(s) == 31 + CHOOSE i \in 1..Len(Ascii) : Ascii[i] = s[1]

----------------------------------------------------------------------------
(* Rows: objects (ordered fields), or null (a JSON payload may hold one) *)

Field(k, v) == [k |-> k, v |-> v]
ObjectRow(fields) == [kind |-> "object", fields |-> fields]
NullRow == [kind |-> "null", fields |-> <<>>]

\* Object.keys(row)
ObjectKeys(row) == [i \in 1..Len(row.fields) |-> row.fields[i].k]

\* row[col]
Get(row, col) ==
  IF \E i \in 1..Len(row.fields) : row.fields[i].k = col
  THEN row.fields[CHOOSE i \in 1..Len(row.fields) : row.fields[i].k = col].v
  ELSE Undefined

\* colNames[i - 1]; an index past the end gives undefined, which used as a
\* property key reads the property named "undefined"
ColAt(colNames, i) == IF i <= Len(colNames) THEN colNames[i] ELSE "undefined"

----------------------------------------------------------------------------
(* Effects run right after the commit that changed their dependencies *)

\* the component is mounted and no effect is waiting to run: the page
\* handles the next event
Quiet == mounted = "mounted" /\ ~pendingBuild /\ ~pendingRender

\* no effect is waiting to run
Settled == ~pendingBuild /\ ~pendingRender

----------------------------------------------------------------------------
(* The graph build effect (useEffect on data and the three column states) *)

\* in a drag gesture: the node it holds is no node of graphData any more
Detached == 0

GroupCount == 5
MinDefaultColumns == 3
LinkValue == 1

ColumnCountMessage ==
  "Data must have at least 3 columns for default behavior (source, edge type, destination)"
GraphErrorPrefix == "Error creating graph: "
NullRowTypeError == "TypeError: cannot read properties of null"

\* the literal 'default'
DefaultEdgeType == <<"d", "e", "f", "a", "u", "l", "t">>

\* !sourceColumn && !targetColumn
useDefaultColumns(sc, tc) == sc = "" /\ tc = ""

\* fault: the guard without its length test
TooFewColumns_NoCount(firstRow) == firstRow.kind = "null"

\* !firstRow || Object.keys(firstRow).length < 3
TooFewColumns(firstRow) ==
  firstRow.kind = "null" \/ Len(ObjectKeys(firstRow)) < MinDefaultColumns

\* Object.keys(data[0] || {})
colNamesOf(rows) == IF rows[1].kind = "null" THEN <<>> ELSE ObjectKeys(rows[1])

\* fault: the type read from the third column by default
edgeColOf_TypeLast(rows, ec) == IF ec # "" THEN ec ELSE ColAt(colNamesOf(rows), 3)

\* fault: the target always read from the third column
tgtColOf_Positional(rows, tc) == ColAt(colNamesOf(rows), 3)

srcColOf(rows, sc) == IF sc # "" THEN sc ELSE ColAt(colNamesOf(rows), 1)
edgeColOf(rows, ec) == IF ec # "" THEN ec ELSE ColAt(colNamesOf(rows), 2)
tgtColOf(rows, tc) == IF tc # "" THEN tc ELSE ColAt(colNamesOf(rows), 3)

\* row[col] ? String(row[col]) : ""
CellText(row, col) == IF Truthy(Get(row, col)) THEN String(Get(row, col)) ELSE <<>>

\* row[edgeCol] ? String(row[edgeCol]) : 'default'
EdgeTypeText(row, col) ==
  IF Truthy(Get(row, col)) THEN String(Get(row, col)) ELSE DefaultEdgeType

\* fault: the bucket without its offset of one
nodeGroup_NoOffset(id) == IF id = <<>> THEN 0 ELSE charCodeAt0(id) % GroupCount

\* source.charCodeAt(0) % 5 + 1 (of the empty string: NaN, written 0)
nodeGroup(id) == IF id = <<>> THEN 0 ELSE (charCodeAt0(id) % GroupCount) + 1

\* fault: a node looked up by its group
nodeMapHas_ByGroup(nodes, id) ==
  \E i \in 1..Len(nodes) : nodes[i].group = nodeGroup(id)

\* nodeMap.has(id)
nodeMapHas(nodes, id) == \E i \in 1..Len(nodes) : nodes[i].id = id

\* fault: a node added without the has() test
nodeMapAdd_NoCheck(nodes, id) == Append(nodes, [id |-> id, group |-> nodeGroup(id)])

\* if (!nodeMap.has(id)) nodeMap.set(id, {id, group})
nodeMapAdd(nodes, id) ==
  IF nodeMapHas(nodes, id) THEN nodes
  ELSE Append(nodes, [id |-> id, group |-> nodeGroup(id)])

\* fault: a row skipped only when both ends are empty
SkipRow_Both(source, target) == source = <<>> /\ target = <<>>

\* if (!source || !target) return
SkipRow(source, target) == source = <<>> \/ target = <<>>

\* fault: a link that is already there is not pushed again
forEachRow_Dedup(acc, row, srcCol, edgeCol, tgtCol) ==
  IF acc.thrown THEN acc
  ELSE IF row.kind = "null" THEN [acc EXCEPT !.thrown = TRUE]
  ELSE
    LET source == CellText(row, srcCol)
        target == CellText(row, tgtCol)
        edgeType == EdgeTypeText(row, edgeCol)
        link == [source |-> source, target |-> target,
                 type |-> edgeType, value |-> LinkValue]
    IN IF SkipRow(source, target) THEN acc
       ELSE [thrown |-> FALSE,
             nodes |-> nodeMapAdd(nodeMapAdd(acc.nodes, source), target),
             links |-> IF \E k \in 1..Len(acc.links) : acc.links[k] = link
                       THEN acc.links ELSE Append(acc.links, link)]

\* the body of data.forEach; acc is [thrown, nodes, links]
forEachRow(acc, row, srcCol, edgeCol, tgtCol) ==
  IF acc.thrown THEN acc
  ELSE IF row.kind = "null" THEN [acc EXCEPT !.thrown = TRUE]
  ELSE
    LET source == CellText(row, srcCol)
        target == CellText(row, tgtCol)
        edgeType == EdgeTypeText(row, edgeCol)
    IN IF SkipRow(source, target) THEN acc
       ELSE [thrown |-> FALSE,
             nodes |-> nodeMapAdd(nodeMapAdd(acc.nodes, source), target),
             links |-> Append(acc.links,
                        [source |-> source, target |-> target,
                         type |-> edgeType, value |-> LinkValue])]

RECURSIVE forEachFrom(_, _, _, _, _, _)
forEachFrom(rows, i, acc, srcCol, edgeCol, tgtCol) ==
  IF i > Len(rows) THEN acc
  ELSE forEachFrom(rows, i + 1, forEachRow(acc, rows[i], srcCol, edgeCol, tgtCol),
                   srcCol, edgeCol, tgtCol)

\* fault: what was folded before the throw is published
BuildOutcome_Partial(rows, sc, tc, ec) ==
  LET acc == forEachFrom(rows, 1,
               [thrown |-> FALSE, nodes |-> <<>>, links |-> <<>>],
               srcColOf(rows, sc), edgeColOf(rows, ec), tgtColOf(rows, tc))
  IN [kind |-> "graph", nodes |-> acc.nodes, links |-> acc.links]

\* the try block of the effect: what it ends with
BuildOutcome(rows, sc, tc, ec) ==
  IF useDefaultColumns(sc, tc) /\ TooFewColumns(rows[1])
  THEN [kind |-> "columnCount", nodes |-> <<>>, links |-> <<>>]
  ELSE
    LET acc == forEachFrom(rows, 1,
                 [thrown |-> FALSE, nodes |-> <<>>, links |-> <<>>],
                 srcColOf(rows, sc), edgeColOf(rows, ec), tgtColOf(rows, tc))
    IN IF acc.thrown
       THEN [kind |-> "thrown", nodes |-> <<>>, links |-> <<>>]
       ELSE [kind |-> "graph", nodes |-> acc.nodes, links |-> acc.links]

GraphOf(outcome) == [nodes |-> outcome.nodes, links |-> outcome.links]

\* The effect. It runs after a commit in which data or a column state changed.
ProcessData ==
  /\ pendingBuild
  /\ pendingBuild' = FALSE
  /\ IF IsNone(data)
     THEN UNCHANGED <<graphData, error, pendingRender, pos, held>>
     ELSE LET outcome == BuildOutcome(The(data), sourceColumn, targetColumn,
                                      edgeTypeColumn)
          IN CASE outcome.kind = "columnCount" ->
                    /\ error' = <<ColumnCountMessage>>
                    /\ UNCHANGED <<graphData, pendingRender, pos, held>>
               [] outcome.kind = "thrown" ->
                    /\ error' = <<GraphErrorPrefix, NullRowTypeError>>
                    /\ UNCHANGED <<graphData, pendingRender, pos, held>>
               [] outcome.kind = "graph" ->
                    \* the nodes of the new graph are new objects: they
                    \* carry no position yet, and the node a drag holds is
                    \* none of them
                    /\ graphData' = Some(GraphOf(outcome))
                    /\ pos' = <<>>
                    /\ held' = IF IsNone(held) THEN None
                               ELSE Some([The(held) EXCEPT !.node = Detached])
                    /\ pendingRender' = TRUE
                    /\ UNCHANGED error
  /\ UNCHANGED <<file, data, columns, sourceColumn, targetColumn, edgeTypeColumn,
                 loading, highlightedType, directedEdges>>
  /\ UNCHANGED <<asyncState, domState, simulation, leaked, clicks>>

----------------------------------------------------------------------------
(* The render effect (useEffect on graphData, highlightedType, directedEdges) *)

Height == 700
Margin == 20
LinkWidth == 2
LinkOpacity == 6
FullOpacity == 10

\* container.clientWidth at the time of a render: a container that is not
\* laid out (hidden, or detached) has width 0
Widths == {0, 300, 500}

\* stroke-width 2 under a group of stroke-opacity 0.6
DefaultLinkAttr == [width |-> LinkWidth, opacity |-> LinkOpacity]

\* where d3.forceSimulation puts the i-th node (0-based) that has no
\* position yet: on a spiral around the origin, here to the nearest integer
InitialPlace(i) ==
  CASE i = 1 -> [x |-> 7, y |-> 0, fx |-> None, fy |-> None]
    [] i = 2 -> [x |-> -9, y |-> 8, fx |-> None, fy |-> None]
    [] i = 3 -> [x |-> 1, y |-> -16, fx |-> None, fy |-> None]
    [] OTHER -> [x |-> 11, y |-> 15, fx |-> None, fy |-> None]

\* fault: a cleanup that leaves the timer of the simulation running
stop_TimerRuns(sim) == sim

\* simulation.stop()
stop(sim) == [sim EXCEPT !.running = FALSE]

\* d3.zoomIdentity; the scale k is in tenths
zoomIdentity == [k |-> 10, x |-> 0, y |-> 0]

\* svg.call(zoom): the behaviour keeps the transform the element already
\* has (this.__zoom), and gives the identity to an element that has none
defaultTransform(stored) == IF IsNone(stored) THEN zoomIdentity ELSE The(stored)

\* fault: an effect that returns no cleanup
stillRuns_NoCleanup(sim) == ~IsNone(sim) /\ The(sim).running

\* whether the timer of the previous run's simulation still runs once the
\* cleanup of that run has been called
stillRuns(sim) == ~IsNone(sim) /\ stop(The(sim)).running

\* The cleanup of the effect's previous run. The drag handlers of that run
\* are closures over its simulation and its width: a gesture that is in
\* progress keeps them.
cleanup(gesture) ==
  IF IsNone(gesture) \/ ~IsNone(The(gesture).stopped) \/ IsNone(simulation)
  THEN gesture
  ELSE Some([The(gesture) EXCEPT
               !.stopped = Some([simulation |-> stop(The(simulation)),
                                 width |-> The(view).width])])

\* The effect: the cleanup of its previous run (simulation.stop()), then the
\* svg is emptied and everything is created again. The node objects of an
\* unchanged graphData keep the positions the earlier simulation gave them.
RenderEffect ==
  /\ pendingRender /\ ~pendingBuild
  /\ pendingRender' = FALSE
  /\ IF IsNone(graphData)
     THEN UNCHANGED <<domState, simState>>
     ELSE \E w \in Widths :
            LET g == The(graphData)
            IN /\ view' = Some([width |-> w, directed |-> directedEdges,
                                type |-> highlightedType, ticked |-> FALSE])
               /\ linkAttr' = [i \in 1..Len(g.links) |-> DefaultLinkAttr]
               /\ nodeOpacity' = [i \in 1..Len(g.nodes) |-> FullOpacity]
               /\ hover' = None
               /\ zoomTransform' = Some(defaultTransform(zoomTransform))
               /\ groupTransform' = None
               /\ held' = cleanup(held)
               /\ leaked' = (leaked \/ stillRuns(simulation))
               /\ simulation' = Some([alphaTarget |-> 0, running |-> TRUE])
               /\ pos' = IF pos # <<>> THEN pos
                         ELSE [i \in 1..Len(g.nodes) |-> InitialPlace(i)]
  /\ UNCHANGED <<reactState, asyncState, pendingBuild, clicks>>

\* the property names of the i-th node object of graphData.nodes: the build
\* gives it id and group; d3.forceSimulation writes index, x, y, vx and vy
\* on the objects it is handed, a drag fx and fy
nodeKeys(i) ==
  {"id", "group"}
    \cup (IF i \in 1..Len(pos) THEN {"index", "x", "y", "vx", "vy"} ELSE {})
    \cup (IF i \in 1..Len(pos) /\ ~IsNone(pos[i].fx) THEN {"fx", "fy"} ELSE {})

\* typeof graphData.links[i].source (and target): the build stores the id;
\* d3.forceLink, with .id(d => d.id), puts the node object in its place
linkEndType(i) == IF pos # <<>> THEN "object" ELSE "string"

\* onChange of the directed edges checkbox (by the pointer, or by the
\* keyboard while the pointer holds a node)
toggleDirected ==
  /\ Quiet
  /\ Len(columns) > 0
  /\ directedEdges' = ~directedEdges
  /\ pendingRender' = TRUE
  /\ UNCHANGED <<file, data, columns, sourceColumn, targetColumn, edgeTypeColumn,
                 graphData, loading, error, highlightedType>>
  /\ UNCHANGED <<asyncState, pendingBuild, domState, simState, clicks>>

\* The component is unmounted: the cleanup of the render effect runs and the
\* elements of the page are removed. The stopped simulation and the node
\* objects stay with the gesture that holds a node, if there is one.
unmount ==
  /\ Quiet
  /\ mounted' = "unmounted"
  /\ held' = cleanup(held)
  /\ leaked' = (leaked \/ stillRuns(simulation))
  /\ simulation' = None
  /\ view' = None
  /\ linkAttr' = <<>>
  /\ nodeOpacity' = <<>>
  /\ hover' = None
  /\ zoomTransform' = None
  /\ groupTransform' = None
  /\ UNCHANGED <<reactState, reader, fetches, requested, pendingBuild,
                 pendingRender, pos, clicks>>

----------------------------------------------------------------------------
(* What a run of the render effect binds: legend, filter, hover handlers *)

HoverLinkWidth == 4
MatchLinkWidth == 3
OtherLinkWidth == 1
LowLinkOpacity == 1
DimNodeOpacity == 2

\* s.replace(from, to) with a string pattern: the first occurrence only
replace(s, from, to) ==
  IF \E i \in 1..Len(s) : s[i] = from
  THEN LET k == CHOOSE i \in 1..Len(s) :
                  s[i] = from /\ \A j \in 1..(i - 1) : s[j] # from
       IN [i \in 1..Len(s) |-> IF i = k THEN to ELSE s[i]]
  ELSE s

RECURSIVE uniqueTypes(_, _, _)
uniqueTypes(links, i, acc) ==
  IF i > Len(links) THEN acc
  ELSE uniqueTypes(links, i + 1,
         IF \E k \in 1..Len(acc) : acc[k] = links[i].type THEN acc
         ELSE Append(acc, links[i].type))

\* [...new Set(graphData.links.map(d => d.type))]
relationshipTypes(g) == uniqueTypes(g.links, 1, <<>>)

\* colors.length
PaletteSize == 15

\* relationshipColors[type] = colors[index % colors.length]: the properties of
\* the object in the order they are created, colours as palette indices
relationshipColors(g) ==
  [i \in 1..Len(relationshipTypes(g)) |->
     [type |-> relationshipTypes(g)[i], color |-> (i - 1) % PaletteSize]]

Digits == <<"0", "1", "2", "3", "4", "5", "6", "7", "8", "9">>
IsDigit(c) == \E d \in 1..Len(Digits) : Digits[d] = c
DigitValue(c) == (CHOOSE d \in 1..Len(Digits) : Digits[d] = c) - 1

\* the property key is an array index: the decimal form of an integer, with
\* no leading zero (the model's keys are far below the limit of 2^32 - 2)
IsArrayIndex(key) ==
  /\ Len(key) >= 1
  /\ \A i \in 1..Len(key) : IsDigit(key[i])
  /\ Len(key) = 1 \/ key[1] # "0"

RECURSIVE ToNumber(_)
ToNumber(key) ==
  IF key = <<>> THEN 0
  ELSE 10 * ToNumber(SubSeq(key, 1, Len(key) - 1)) + DigitValue(key[Len(key)])

\* Object.entries(object): the array-index keys first, in ascending numeric
\* order, then the other keys in the order of their creation
ObjectEntries(properties) ==
  LET all == 1..Len(properties)
      indexKeys == {i \in all : IsArrayIndex(properties[i].type)}
      otherKeys == all \ indexKeys
      rank(i) ==
        IF i \in indexKeys
        THEN 1 + Cardinality({j \in indexKeys :
                   ToNumber(properties[j].type) < ToNumber(properties[i].type)})
        ELSE 1 + Cardinality(indexKeys) + Cardinality({j \in otherKeys : j < i})
  IN [k \in all |-> properties[CHOOSE i \in all : rank(i) = k]]

\* the entries of the legend: the type each one shows, and its colour
legendData(g) ==
  [k \in 1..Len(relationshipTypes(g)) |->
     [type |-> replace(ObjectEntries(relationshipColors(g))[k].type, "_", " "),
      color |-> ObjectEntries(relationshipColors(g))[k].color]]

\* the type a click on a legend entry filters on
clickedType(label) == replace(label, " ", "_")

\* fault: the click always activates the clicked type
nextHighlightedType_NoToggle(current, type) == Some(type)

\* Toggle highlight
nextHighlightedType(current, type) ==
  IF current = Some(type) THEN None ELSE Some(type)

\* the styles the render effect creates
resetStyles(g) ==
  [links |-> [i \in 1..Len(g.links) |-> DefaultLinkAttr],
   nodes |-> [i \in 1..Len(g.nodes) |-> FullOpacity]]

\* the ids of the nodes that an edge of the type touches
relevantNodes(g, t) ==
  {g.links[i].source : i \in {j \in 1..Len(g.links) : g.links[j].type = t}}
    \cup {g.links[i].target : i \in {j \in 1..Len(g.links) : g.links[j].type = t}}

\* Helper function to apply relationship type filter: type is null or a type
applyRelationshipFilter(type, g) ==
  IF IsNone(type) \/ The(type) = <<>>
  THEN resetStyles(g)
  ELSE [links |-> [i \in 1..Len(g.links) |->
                     IF g.links[i].type = The(type)
                     THEN [width |-> MatchLinkWidth, opacity |-> FullOpacity]
                     ELSE [width |-> OtherLinkWidth, opacity |-> LowLinkOpacity]],
        nodes |-> [i \in 1..Len(g.nodes) |->
                     IF g.nodes[i].id \in relevantNodes(g, The(type))
                     THEN FullOpacity ELSE DimNodeOpacity]]

\* the pointer is over the legend, over no link and no node, and holds none
legendClick(i) ==
  /\ Quiet
  /\ ~IsNone(view) /\ IsNone(hover) /\ IsNone(held)
  /\ i \in 1..Len(legendData(The(graphData)))
  /\ LET g == The(graphData)
         type == clickedType(legendData(g)[i].type)
         next == nextHighlightedType(The(view).type, type)
         styles == applyRelationshipFilter(next, g)
         click == [entry |-> i, linkAttr |-> linkAttr, nodeOpacity |-> nodeOpacity]
     IN /\ highlightedType' = next
        /\ linkAttr' = styles.links
        /\ nodeOpacity' = styles.nodes
        /\ pendingRender' = (next # highlightedType)
        /\ clicks' = IF IsNone(highlightedType) THEN <<click>>
                     ELSE IF Len(clicks) < 3 THEN Append(clicks, click)
                     ELSE clicks
  /\ UNCHANGED <<file, data, columns, sourceColumn, targetColumn, edgeTypeColumn,
                 graphData, loading, error, directedEdges>>
  /\ UNCHANGED <<asyncState, pendingBuild, view, hover, zoomState, simState>>

Link(i) == [kind |-> "link", i |-> i]
Node(i) == [kind |-> "node", i |-> i]

\* link.on("mouseover")
linkMouseOver(i) ==
  /\ Quiet
  /\ ~IsNone(view) /\ IsNone(hover)
  /\ i \in 1..Len(linkAttr)
  /\ linkAttr' = [linkAttr EXCEPT ![i] = [width |-> HoverLinkWidth,
                                          opacity |-> FullOpacity]]
  /\ hover' = Some(Link(i))
  /\ UNCHANGED <<reactState, asyncState, pendingBuild, pendingRender, view,
                 nodeOpacity, zoomState, simState, clicks>>

\* link.on("mouseout")
linkMouseOut ==
  /\ Quiet
  /\ ~IsNone(hover) /\ The(hover).kind = "link"
  /\ linkAttr' = [linkAttr EXCEPT ![The(hover).i] = DefaultLinkAttr]
  /\ hover' = None
  /\ UNCHANGED <<reactState, asyncState, pendingBuild, pendingRender, view,
                 nodeOpacity, zoomState, simState, clicks>>

\* link.source.id === d.id || link.target.id === d.id
touches(l, id) == l.source = id \/ l.target = id

\* connections.some(...): an edge joins the hovered node d and the node n
isConnected(g, d, n) ==
  \E i \in 1..Len(g.links) :
    \/ g.links[i].source = d /\ g.links[i].target = n
    \/ g.links[i].target = d /\ g.links[i].source = n

\* node.on("mouseover")
nodeMouseOver(n) ==
  /\ Quiet
  /\ ~IsNone(view) /\ IsNone(hover)
  /\ n \in 1..Len(nodeOpacity)
  /\ LET g == The(graphData)
         d == g.nodes[n].id
     IN /\ linkAttr' = [i \in 1..Len(g.links) |->
                          IF touches(g.links[i], d)
                          THEN [width |-> MatchLinkWidth, opacity |-> FullOpacity]
                          ELSE [linkAttr[i] EXCEPT !.opacity = LowLinkOpacity]]
        /\ nodeOpacity' = [i \in 1..Len(g.nodes) |->
                             IF g.nodes[i].id # d /\ ~isConnected(g, d, g.nodes[i].id)
                             THEN DimNodeOpacity ELSE nodeOpacity[i]]
  /\ hover' = Some(Node(n))
  /\ UNCHANGED <<reactState, asyncState, pendingBuild, pendingRender, view,
                 zoomState, simState, clicks>>

\* node.on("mouseout"): highlightedType is the one this render closed over
nodeMouseOut ==
  /\ Quiet
  /\ ~IsNone(hover) /\ The(hover).kind = "node"
  /\ LET styles == applyRelationshipFilter(The(view).type, The(graphData))
     IN /\ linkAttr' = styles.links
        /\ nodeOpacity' = styles.nodes
  /\ hover' = None
  /\ UNCHANGED <<reactState, asyncState, pendingBuild, pendingRender, view,
                 zoomState, simState, clicks>>

----------------------------------------------------------------------------
(* The force simulation of a render: ticks and the drag of a node *)

DragAlphaTarget == 3

max(a, b) == IF a >= b THEN a ELSE b
min(a, b) == IF a <= b THEN a ELSE b

\* fault: no upper bound
clamp_NoUpper(lo, hi, v) == max(lo, v)

\* Math.max(lo, Math.min(hi, v))
clamp(lo, hi, v) == max(lo, min(hi, v))

\* places the forces may give a free node, and the pointer a dragged one:
\* left of, inside and right of the canvas, and above, inside and below it
Points ==
  { [x |-> -10, y |-> 350], [x |-> 250, y |-> -10], [x |-> 600, y |-> 800] }

\* the node is pinned: a drag holds it
Pinned(i) == ~IsNone(pos[i].fx)

\* a drag gesture in progress: the node it holds, and the simulation and the
\* width its handlers close over when their render has been torn down
Gesture(node) == [node |-> node, stopped |-> None]

\* the gesture in progress belongs to a render that has been torn down
Stale == ~IsNone(held) /\ ~IsNone(The(held).stopped)

\* the tick handler: Keep nodes within bounds (the simulation has put the
\* free nodes where the forces move them and the pinned ones at their pin)
onTick(width, moved) ==
  [i \in 1..Len(pos) |->
     [pos[i] EXCEPT
        !.x = clamp(Margin, width - Margin,
                    IF Pinned(i) THEN The(pos[i].fx) ELSE moved[i].x),
        !.y = clamp(Margin, Height - Margin,
                    IF Pinned(i) THEN The(pos[i].fy) ELSE moved[i].y)]]

\* One tick of a simulation whose timer runs: the one of the last render,
\* or the one a gesture in progress closes over. A simulation whose alpha
\* target is 0 may cool down and stop after the tick.
Tick ==
  /\ Settled
  /\ \/ /\ ~IsNone(view) /\ ~IsNone(simulation) /\ The(simulation).running
        /\ \E moved \in [1..Len(pos) -> Points] :
             pos' = onTick(The(view).width, moved)
        /\ view' = Some([The(view) EXCEPT !.ticked = TRUE])
        /\ \E cooled \in {FALSE, The(simulation).alphaTarget = 0} :
             simulation' = Some([The(simulation) EXCEPT !.running = ~cooled])
        /\ UNCHANGED <<held, leaked>>
     \/ /\ Stale /\ The(The(held).stopped).simulation.running
        /\ IF The(held).node = Detached THEN UNCHANGED pos
           ELSE \E moved \in [1..Len(pos) -> Points] :
                  pos' = onTick(The(The(held).stopped).width, moved)
        /\ UNCHANGED <<view, simulation, held, leaked>>
  /\ UNCHANGED <<reactState, asyncState, pendingBuild, pendingRender, linkAttr,
                 nodeOpacity, hover, zoomState, clicks>>

\* the index of the node object that forceLink finds for an id
nodeById(g, id) == CHOOSE n \in 1..Len(g.nodes) : g.nodes[n].id = id

\* fault: the arc in both modes
linkPath_AlwaysArc(directed, source, target) ==
  LET dx == target.x - source.x
      dy == target.y - source.y
  IN [command |-> "A", radiusSquared |-> dx * dx + dy * dy,
      from |-> <<source.x, source.y>>, to |-> <<target.x, target.y>>]

\* Update link paths: the "d" attribute the tick handler gives a link whose
\* ends are at source and target: M, then an arc A of radius dr (written by
\* its square, dr being a square root) or of radius 1, or a line L
linkPath(directed, source, target) ==
  IF directed
  THEN LET dx == target.x - source.x
           dy == target.y - source.y
           drSquared == dx * dx + dy * dy
       IN [command |-> "A",
           radiusSquared |-> IF drSquared = 0 THEN 1 ELSE drSquared,
           from |-> <<source.x, source.y>>, to |-> <<target.x, target.y>>]
  ELSE [command |-> "L", radiusSquared |-> 0,
        from |-> <<source.x, source.y>>, to |-> <<target.x, target.y>>]

\* the "d" attribute of the i-th link after a tick of the current render
linkPathOf(i) ==
  LET g == The(graphData)
  IN linkPath(The(view).directed, pos[nodeById(g, g.links[i].source)],
              pos[nodeById(g, g.links[i].target)])

\* /[a-zA-Z0-9]/.test(c)
IsAlphanumeric(c) ==
  LET code == charCodeAt0(<<c>>)
  IN (48 <= code /\ code <= 57) \/ (65 <= code /\ code <= 90)
       \/ (97 <= code /\ code <= 122)

\* `arrow-${type.replace(/[^a-zA-Z0-9]/g, '-')}`
markerId(type) ==
  <<"a", "r", "r", "o", "w", "-">>
    \o [i \in 1..Len(type) |-> IF IsAlphanumeric(type[i]) THEN type[i] ELSE "-"]

\* the marker-end attribute of a link of the type: null in undirected mode
markerEnd(directed, type) == IF directed THEN Some(markerId(type)) ELSE None

\* the ids of the markers the render defines
markerDefs(directed, g) ==
  IF directed
  THEN {markerId(relationshipColors(g)[k].type) :
          k \in 1..Len(relationshipColors(g))}
  ELSE {}

\* the glyph between the two ids in the tooltip of a link
tooltipGlyph(directed) ==
  IF directed THEN "RIGHTWARDS ARROW" ELSE "EM DASH"

\* dragstarted, with one pointer: no other gesture is active (event.active
\* is 0)
dragstarted(i) ==
  /\ Quiet
  /\ ~IsNone(view)
  /\ i \in 1..Len(pos)
  /\ IsNone(held)
  /\ held' = Some(Gesture(i))
  /\ simulation' = Some([alphaTarget |-> DragAlphaTarget, running |-> TRUE])
  /\ pos' = [pos EXCEPT ![i].fx = Some(pos[i].x), ![i].fy = Some(pos[i].y)]
  /\ UNCHANGED <<reactState, asyncState, pendingBuild, pendingRender, domState,
                 leaked, clicks>>

\* dragged: the pin follows the pointer
dragged(p) ==
  /\ Settled
  /\ ~IsNone(held)
  /\ pos' = IF The(held).node = Detached THEN pos
            ELSE [pos EXCEPT ![The(held).node].fx = Some(p.x),
                             ![The(held).node].fy = Some(p.y)]
  /\ UNCHANGED <<reactState, asyncState, pendingBuild, pendingRender, domState,
                 simulation, held, leaked, clicks>>

\* fault: the end of the drag clears fx only
dragended_KeepsFy ==
  /\ Settled
  /\ ~IsNone(held)
  /\ held' = None
  /\ simulation' = IF Stale THEN simulation
                   ELSE Some([The(simulation) EXCEPT !.alphaTarget = 0])
  /\ pos' = IF The(held).node = Detached THEN pos
            ELSE [pos EXCEPT ![The(held).node].fx = None]
  /\ UNCHANGED <<reactState, asyncState, pendingBuild, pendingRender, domState,
                 leaked, clicks>>

\* dragended: simulation is the one of the render the gesture started in
dragended ==
  /\ Settled
  /\ ~IsNone(held)
  /\ held' = None
  /\ simulation' = IF Stale THEN simulation
                   ELSE Some([The(simulation) EXCEPT !.alphaTarget = 0])
  /\ pos' = IF The(held).node = Detached THEN pos
            ELSE [pos EXCEPT ![The(held).node].fx = None,
                             ![The(held).node].fy = None]
  /\ UNCHANGED <<reactState, asyncState, pendingBuild, pendingRender, domState,
                 leaked, clicks>>

----------------------------------------------------------------------------
(* Inputs of the build: headers, cells, rows, column mappings *)

MaxRows == 2

HeaderStandard == <<"Source", "RelationshipType", "Target">>
HeaderRotated == <<"Target", "Source", "RelationshipType">>
HeaderAlternate == <<"Person1", "ConnectionType", "Person2">>
HeaderTwo == <<"col1", "col2">>
HeaderFour == <<"Source", "RelationshipType", "Target", "Note">>
Headers == {HeaderStandard, HeaderRotated, HeaderAlternate, HeaderTwo, HeaderFour}

EmptyCell == StrV(<<>>)
CellA == StrV(<<"A">>)
CellB == StrV(<<"B">>)
CellX == StrV(<<"x">>)
CellZero == NumV(<<"0">>)
CellSeven == NumV(<<"7">>)

\* the cells a generated row may hold at field i
CellsAt(i) ==
  CASE i = 2 -> {CellX, EmptyCell}
    [] i = 4 -> {CellX}
    [] OTHER -> {CellA, CellB, EmptyCell}

MakeRow(header, values) ==
  ObjectRow([i \in 1..Len(header) |-> Field(header[i], values[i])])

\* rows with a number cell (dynamicTyping) and a null cell
SpecialValues(header) ==
  IF header = HeaderStandard
  THEN {<<CellZero, CellX, CellB>>, <<CellA, NullV, CellSeven>>}
  ELSE {}

RowSpace(header) ==
  {MakeRow(header, v) :
     v \in {w \in [1..Len(header) -> UNION {CellsAt(i) : i \in 1..Len(header)}] :
              \A i \in 1..Len(header) : w[i] \in CellsAt(i)}}
  \cup {MakeRow(header, v) : v \in SpecialValues(header)}
  \cup {NullRow}

Alice == <<"A", "l", "i", "c", "e">>
Bob == <<"B", "o", "b">>
Charlie == <<"C", "h", "a", "r", "l", "i", "e">>
Friend == <<"F", "r", "i", "e", "n", "d">>
Colleague == <<"C", "o", "l", "l", "e", "a", "g", "u", "e">>
Alex == <<"A", "l", "e", "x">>
Beth == <<"B", "e", "t", "h">>
friends == <<"f", "r", "i", "e", "n", "d", "s">>

\* the rows of the component's tests
StandardExample ==
  << MakeRow(HeaderStandard, <<StrV(Alice), StrV(Friend), StrV(Bob)>>),
     MakeRow(HeaderStandard, <<StrV(Bob), StrV(Colleague), StrV(Charlie)>>) >>
AlternateExample ==
  << MakeRow(HeaderAlternate, <<StrV(Alex), StrV(friends), StrV(Beth)>>) >>

\* two headers are there for their column count and their names only: one
\* row is enough
RowsFor(h) == IF h \in {HeaderFour, HeaderAlternate} THEN 1 ELSE MaxRows

Datasets ==
  UNION {UNION {[1..n -> RowSpace(h)] : n \in 1..RowsFor(h)} : h \in Headers}
  \cup {StandardExample, AlternateExample}

Mapping(s, t, e) == [s |-> s, t |-> t, e |-> e]
Mappings ==
  { Mapping("", "", ""),
    Mapping("Source", "Target", "RelationshipType"),
    Mapping("Source", "Target", ""),
    Mapping("Source", "", ""),
    Mapping("", "", "RelationshipType") }

\* a graph published by an earlier build
PriorGraph ==
  [nodes |-> << [id |-> <<"C">>, group |-> nodeGroup(<<"C">>)] >>,
   links |-> << [source |-> <<"C">>, target |-> <<"C">>, type |-> <<"x">>,
                 value |-> LinkValue] >>]

\* everything but data, columns, the mapping and the published graph, as the
\* component's useState calls initialise it
InitRest ==
  /\ file = None
  /\ loading = FALSE
  /\ error = None
  /\ highlightedType = None
  /\ directedEdges = TRUE
  /\ reader = None
  /\ requested = None
  /\ fetches = {}
  /\ pendingRender = FALSE
  /\ view = None
  /\ linkAttr = <<>>
  /\ nodeOpacity = <<>>
  /\ hover = None
  /\ zoomTransform = None
  /\ groupTransform = None
  /\ simulation = None
  /\ pos = <<>>
  /\ held = None
  /\ leaked = FALSE
  /\ clicks = <<>>

\* Rows have just been installed under some mapping; the build effect is due.
InitBuild ==
  /\ \E rows \in Datasets :
       /\ data = Some(rows)
       /\ columns = colNamesOf(rows)
  /\ \E m \in Mappings :
       /\ sourceColumn = m.s
       /\ targetColumn = m.t
       /\ edgeTypeColumn = m.e
  /\ graphData \in {None, Some(PriorGraph)}
  /\ pendingBuild = TRUE
  /\ mounted = "mounted"
  /\ InitRest

NextBuild == ProcessData

SpecBuild == InitBuild /\ [][NextBuild]_vars

----------------------------------------------------------------------------
(* Loading rows: file upload, sample data, JSON payload *)

MaxReads == 1

\* c.toLowerCase(), for the letters of the model's file names
LowerChar(c) ==
  CASE c = "C" -> "c"
    [] c = "S" -> "s"
    [] c = "V" -> "v"
    [] OTHER -> c

\* s.toLowerCase()
toLowerCase(s) == [i \in 1..Len(s) |-> LowerChar(s[i])]

\* fault: the suffix found anywhere in the name
endsWith_Includes(s, suffix) ==
  \E i \in 1..Len(s) :
    i + Len(suffix) - 1 <= Len(s) /\ SubSeq(s, i, i + Len(suffix) - 1) = suffix

\* s.endsWith(suffix)
endsWith(s, suffix) ==
  /\ Len(s) >= Len(suffix)
  /\ SubSeq(s, Len(s) - Len(suffix) + 1, Len(s)) = suffix

DotCsv == <<".", "c", "s", "v">>

\* uploadedFile.name.toLowerCase().endsWith('.csv')
IsCsvName(name) == endsWith(toLowerCase(name), DotCsv)

UnsupportedMessage ==
  "Currently only CSV files are supported. Please convert your data to CSV format."
ParseFailedPrefix == "Failed to parse CSV file: "
NoDataInFile == "No data found in file"
ReadFailedMessage == "Failed to read file"
SampleFailedPrefix == "Error loading sample data: "
NoDataInSample == "No data found in sample file"
FetchFailed == "TypeError: Failed to fetch"
JsonFailedPrefix == "Error processing JSON data: "
InvalidJson == "Invalid JSON string data"
NotAnArray == "Data must be an array of objects"
NoDataInPayload == "No data found in JSON payload"
PayloadColumns == "Data must have at least 3 columns for graph visualization"
NullKeysTypeError == "TypeError: cannot convert undefined or null to object"

\* a file the user may pick: its name and the rows its text parses to
File(name, rows) == [name |-> name, rows |-> rows]

TwoColumnRows == << MakeRow(HeaderTwo, <<StrV(Alice), StrV(Bob)>>) >>

TextFile == File(<<"t", ".", "t", "x", "t">>, StandardExample)
CsvTextFile == File(<<"t", ".", "c", "s", "v", ".", "t", "x", "t">>, StandardExample)
UpperCsvFile == File(<<"t", ".", "C", "S", "V">>, StandardExample)
TwoColumnFile == File(<<"2", ".", "c", "s", "v">>, TwoColumnRows)
EmptyFile == File(<<"0", ".", "c", "s", "v">>, <<>>)
Files == {TextFile, CsvTextFile, UpperCsvFile, TwoColumnFile, EmptyFile}

\* Handle file upload
handleFileUpload(f) ==
  /\ Quiet
  /\ file' = Some(f.name)
  /\ IF ~IsCsvName(f.name)
     THEN /\ error' = <<UnsupportedMessage>>
          /\ loading' = FALSE
          /\ UNCHANGED <<reader, requested>>
     ELSE /\ Len(reader) < MaxReads
          /\ loading' = TRUE
          /\ error' = None
          /\ reader' = Append(reader, f)
          /\ requested' = Some(f.rows)
  /\ UNCHANGED <<data, columns, sourceColumn, targetColumn, edgeTypeColumn,
                 graphData, highlightedType, directedEdges>>
  /\ UNCHANGED <<fetches, mounted, pendingBuild, pendingRender, domState, simState, clicks>>

RemoveAt(q, i) == SubSeq(q, 1, i - 1) \o SubSeq(q, i + 1, Len(q))

\* the history of the requests once a load has completed: kept while
\* another load is in flight
stillRequested(readsLeft, fetchesLeft) ==
  IF readsLeft = <<>> /\ fetchesLeft = {} THEN None ELSE requested

\* reader.onload: Papa.parse and its complete callback
readerOnLoad(i) ==
  /\ Quiet
  /\ i \in 1..Len(reader)
  /\ reader' = RemoveAt(reader, i)
  /\ requested' = stillRequested(reader', fetches)
  /\ loading' = FALSE
  /\ IF Len(reader[i].rows) > 0
     THEN /\ data' = Some(reader[i].rows)
          /\ columns' = colNamesOf(reader[i].rows)
          /\ pendingBuild' = TRUE
          /\ UNCHANGED error
     ELSE /\ error' = <<ParseFailedPrefix, NoDataInFile>>
          /\ UNCHANGED <<data, columns, pendingBuild>>
  /\ UNCHANGED <<file, sourceColumn, targetColumn, edgeTypeColumn, graphData,
                 highlightedType, directedEdges>>
  /\ UNCHANGED <<fetches, mounted, pendingRender, domState, simState, clicks>>

\* fault: the read failure handler without its setLoading(false)
readerOnError_KeepsLoading(i) ==
  /\ Quiet
  /\ i \in 1..Len(reader)
  /\ reader' = RemoveAt(reader, i)
  /\ requested' = stillRequested(reader', fetches)
  /\ error' = <<ReadFailedMessage>>
  /\ UNCHANGED <<file, data, columns, sourceColumn, targetColumn, edgeTypeColumn,
                 graphData, loading, highlightedType, directedEdges>>
  /\ UNCHANGED <<fetches, mounted, pendingBuild, pendingRender, domState, simState, clicks>>

\* reader.onerror
readerOnError(i) ==
  /\ Quiet
  /\ i \in 1..Len(reader)
  /\ reader' = RemoveAt(reader, i)
  /\ requested' = stillRequested(reader', fetches)
  /\ error' = <<ReadFailedMessage>>
  /\ loading' = FALSE
  /\ UNCHANGED <<file, data, columns, sourceColumn, targetColumn, edgeTypeColumn,
                 graphData, highlightedType, directedEdges>>
  /\ UNCHANGED <<fetches, mounted, pendingBuild, pendingRender, domState, simState, clicks>>

StandardSample == "classmates.csv"
AlternateSample == "alternate-order.csv"
Samples == {StandardSample, AlternateSample}

\* the rows the sample files parse to (the texts the tests serve)
SampleRows(sampleFile) ==
  IF sampleFile = AlternateSample
  THEN AlternateExample
  ELSE << MakeRow(HeaderStandard, <<StrV(Alice), StrV(Friend), StrV(Bob)>>) >>

\* fault: the file name alone
samplePath_NoDirectory(sampleFile) == sampleFile

\* `/src/data/${sampleFile}`
samplePath(sampleFile) == "/src/data/" \o sampleFile

\* Load sample dataset: up to the fetch
loadSampleData(sampleFile) ==
  /\ Quiet
  /\ samplePath(sampleFile) \notin fetches
  /\ loading' = TRUE
  /\ fetches' = fetches \cup {samplePath(sampleFile)}
  /\ requested' = Some(SampleRows(sampleFile))
  /\ UNCHANGED <<file, data, columns, sourceColumn, targetColumn, edgeTypeColumn,
                 graphData, error, highlightedType, directedEdges>>
  /\ UNCHANGED <<reader, mounted, pendingBuild, pendingRender, domState, simState, clicks>>

\* the fetch resolves with the sample's text: Papa.parse, complete callback
fetchResolved(sampleFile) ==
  /\ Quiet
  /\ samplePath(sampleFile) \in fetches
  /\ fetches' = fetches \ {samplePath(sampleFile)}
  /\ requested' = stillRequested(reader, fetches')
  /\ data' = Some(SampleRows(sampleFile))
  /\ columns' = colNamesOf(SampleRows(sampleFile))
  /\ IF sampleFile = AlternateSample
     THEN /\ sourceColumn' = ""
          /\ targetColumn' = ""
          /\ edgeTypeColumn' = ""
     ELSE /\ sourceColumn' = "Source"
          /\ targetColumn' = "Target"
          /\ edgeTypeColumn' = "RelationshipType"
  /\ loading' = FALSE
  /\ pendingBuild' = TRUE
  /\ UNCHANGED <<file, graphData, error, highlightedType, directedEdges>>
  /\ UNCHANGED <<reader, mounted, pendingRender, domState, simState, clicks>>

\* the fetch rejects, or its text holds no row: the catch block
fetchFailed(sampleFile) ==
  /\ Quiet
  /\ samplePath(sampleFile) \in fetches
  /\ fetches' = fetches \ {samplePath(sampleFile)}
  /\ requested' = stillRequested(reader, fetches')
  /\ \E message \in {FetchFailed, NoDataInSample} :
       error' = <<SampleFailedPrefix, message>>
  /\ loading' = FALSE
  /\ UNCHANGED <<file, data, columns, sourceColumn, targetColumn, edgeTypeColumn,
                 graphData, highlightedType, directedEdges>>
  /\ UNCHANGED <<reader, mounted, pendingBuild, pendingRender, domState, simState, clicks>>

\* a payload handed to window.loadGraphData: a value, or a string that is
\* JSON for that value (or no JSON at all)
Payload(isString, validJson, isArray, rows) ==
  [isString |-> isString, validJson |-> validJson, isArray |-> isArray,
   rows |-> rows]

RowsPayload == Payload(FALSE, TRUE, TRUE, AlternateExample)
JsonRowsPayload == Payload(TRUE, TRUE, TRUE, AlternateExample)
BadJsonPayload == Payload(TRUE, FALSE, FALSE, <<>>)
NotArrayPayload == Payload(FALSE, TRUE, FALSE, <<>>)
EmptyPayload == Payload(FALSE, TRUE, TRUE, <<>>)
TwoKeysPayload == Payload(FALSE, TRUE, TRUE, TwoColumnRows)
NullFirstPayload == Payload(FALSE, TRUE, TRUE, <<NullRow>>)
NullSecondPayload ==
  Payload(FALSE, TRUE, TRUE,
          << MakeRow(HeaderAlternate, <<StrV(Alex), StrV(friends), StrV(Beth)>>),
             NullRow >>)
\* the string "AxB" as a row: its keys are its indices, its fields its characters
StringRow ==
  [kind |-> "string",
   fields |-> << Field("0", StrV(<<"A">>)), Field("1", StrV(<<"x">>)),
                 Field("2", StrV(<<"B">>)) >>]
StringsPayload == Payload(FALSE, TRUE, TRUE, <<StringRow>>)
Payloads ==
  {RowsPayload, JsonRowsPayload, BadJsonPayload, NotArrayPayload, EmptyPayload,
   TwoKeysPayload, NullFirstPayload, NullSecondPayload, StringsPayload}

\* the message of the error the try block of loadFromJsonPayload throws,
\* or "" when it installs the rows
PayloadError(p) ==
  IF p.isString /\ ~p.validJson THEN InvalidJson
  ELSE IF ~p.isArray THEN NotAnArray
  ELSE IF Len(p.rows) = 0 THEN NoDataInPayload
  ELSE IF p.rows[1].kind = "null" THEN NullKeysTypeError
  ELSE IF Len(ObjectKeys(p.rows[1])) < MinDefaultColumns THEN PayloadColumns
  ELSE ""

\* Load data from a JSON API payload: the setters the function calls
setFromJsonPayload(p) ==
  /\ loading' = FALSE
  /\ IF PayloadError(p) = ""
     THEN /\ data' = Some(p.rows)
          /\ columns' = ObjectKeys(p.rows[1])
          /\ error' = None
          /\ pendingBuild' = TRUE
     ELSE /\ error' = <<JsonFailedPrefix, PayloadError(p)>>
          /\ UNCHANGED <<data, columns, pendingBuild>>

\* window.loadGraphData(jsonData)
loadFromJsonPayload(p) ==
  /\ Quiet
  /\ setFromJsonPayload(p)
  /\ UNCHANGED <<file, sourceColumn, targetColumn, edgeTypeColumn, graphData,
                 highlightedType, directedEdges>>
  /\ UNCHANGED <<asyncState, pendingRender, domState, simState, clicks>>

\* the 'data' parameter of the page's URL: absent (or empty), or a text that
\* decodeURIComponent and then JSON.parse may refuse, or the value they give
UrlParam(present, decodes, parses, value) ==
  [present |-> present, decodes |-> decodes, parses |-> parses, value |-> value]

UrlParams ==
  { UrlParam(FALSE, FALSE, FALSE, EmptyPayload),
    UrlParam(TRUE, FALSE, FALSE, EmptyPayload),
    UrlParam(TRUE, TRUE, FALSE, EmptyPayload),
    UrlParam(TRUE, TRUE, TRUE, RowsPayload),
    UrlParam(TRUE, TRUE, TRUE, BadJsonPayload),
    UrlParam(TRUE, TRUE, TRUE, NotArrayPayload),
    UrlParam(TRUE, TRUE, TRUE, TwoKeysPayload) }

\* the mount effect: window.loadGraphData is installed, and the URL's data
\* parameter, when there is one, is decoded and loaded; a throw of the
\* decoding is logged to the console
mountEffect(q) ==
  /\ mounted = "mounting"
  /\ mounted' = "mounted"
  /\ IF q.present /\ q.decodes /\ q.parses
     THEN setFromJsonPayload(q.value)
     ELSE UNCHANGED <<loading, data, columns, error, pendingBuild>>
  /\ UNCHANGED <<file, sourceColumn, targetColumn, edgeTypeColumn, graphData,
                 highlightedType, directedEdges>>
  /\ UNCHANGED <<reader, fetches, requested, pendingRender, domState, simState,
                 clicks>>

\* the options of a column select (the selects re-map rows that are loaded;
\* the build under every mapping is SpecBuild)
Options == {""} \cup {columns[i] : i \in 1..Len(columns)}

\* onChange of the source select
setSourceColumn(c) ==
  /\ Quiet
  /\ Len(columns) > 0
  /\ c \in Options /\ c # sourceColumn
  /\ sourceColumn' = c
  /\ pendingBuild' = TRUE
  /\ UNCHANGED <<file, data, columns, targetColumn, edgeTypeColumn, graphData,
                 loading, error, highlightedType, directedEdges>>
  /\ UNCHANGED <<asyncState, pendingRender, domState, simState, clicks>>

\* onChange of the target select
setTargetColumn(c) ==
  /\ Quiet
  /\ Len(columns) > 0
  /\ c \in Options /\ c # targetColumn
  /\ targetColumn' = c
  /\ pendingBuild' = TRUE
  /\ UNCHANGED <<file, data, columns, sourceColumn, edgeTypeColumn, graphData,
                 loading, error, highlightedType, directedEdges>>
  /\ UNCHANGED <<asyncState, pendingRender, domState, simState, clicks>>

\* onChange of the edge type select
setEdgeTypeColumn(c) ==
  /\ Quiet
  /\ Len(columns) > 0
  /\ c \in Options /\ c # edgeTypeColumn
  /\ edgeTypeColumn' = c
  /\ pendingBuild' = TRUE
  /\ UNCHANGED <<file, data, columns, sourceColumn, targetColumn, graphData,
                 loading, error, highlightedType, directedEdges>>
  /\ UNCHANGED <<asyncState, pendingRender, domState, simState, clicks>>

----------------------------------------------------------------------------
(* Vocabulary of the build claims *)

\* the build effect has run on installed rows
Built == ~pendingBuild /\ ~IsNone(data)

\* ... and has published a graph that the render effect has yet to draw
Published == Built /\ pendingRender /\ ~IsNone(graphData)

NoMapping == sourceColumn = "" /\ targetColumn = "" /\ edgeTypeColumn = ""
FullMapping == sourceColumn # "" /\ targetColumn # "" /\ edgeTypeColumn # ""

AllObjects(rows) == \A i \in 1..Len(rows) : rows[i].kind = "object"

\* a cell read as text: empty when the cell counts as empty
Coerced(v) == IF Truthy(v) THEN String(v) ELSE <<>>
\* a type cell read as text
CoercedType(v) == IF Truthy(v) THEN String(v) ELSE DefaultEdgeType

\* the value of the i-th field of a row (undefined past its last field)
FieldAt(row, i) == IF i <= Len(row.fields) THEN row.fields[i].v ELSE Undefined

\* the j-th smallest element of a set of row indices
Nth(S, j) == CHOOSE i \in S : Cardinality({k \in S : k < i}) = j - 1

NodeIds(graph) == {graph.nodes[i].id : i \in 1..Len(graph.nodes)}

C2_ColumnCountGuard ==
  [][(pendingBuild /\ ~pendingBuild' /\ ~IsNone(data) /\ NoMapping
        /\ Len(The(data)[1].fields) < MinDefaultColumns)
     => (error' = <<ColumnCountMessage>> /\ graphData' = graphData
         /\ pendingRender' = pendingRender)]_vars

C2_Witness ==
  /\ Built /\ NoMapping
  /\ The(data)[1].kind = "object"
  /\ Len(The(data)[1].fields) = 2
  /\ error = <<ColumnCountMessage>>
  /\ graphData = Some(PriorGraph)

\* the rows the build keeps under the resolved columns
KeptRows ==
  LET rows == The(data)
  IN {i \in 1..Len(rows) :
        /\ Coerced(Get(rows[i], srcColOf(rows, sourceColumn))) # <<>>
        /\ Coerced(Get(rows[i], tgtColOf(rows, targetColumn))) # <<>>}

\* C4 as stated: the node count is the number of distinct non-empty coerced
\* values of the source column or the target column over all rows.
C4_NodeCountOverAllRows ==
  (Published /\ AllObjects(The(data)))
  => LET rows == The(data)
         values ==
           {Coerced(Get(rows[i], srcColOf(rows, sourceColumn))) : i \in 1..Len(rows)}
           \cup
           {Coerced(Get(rows[i], tgtColOf(rows, targetColumn))) : i \in 1..Len(rows)}
     IN Len(The(graphData).nodes) = Cardinality(values \ {<<>>})

\* C4 amended: the node count is the number of distinct coerced values of the
\* source column or the target column over the rows that are kept.
C4_NodeCountOverKeptRows ==
  (Published /\ AllObjects(The(data)))
  => LET rows == The(data)
         values ==
           {Coerced(Get(rows[i], srcColOf(rows, sourceColumn))) : i \in KeptRows}
           \cup
           {Coerced(Get(rows[i], tgtColOf(rows, targetColumn))) : i \in KeptRows}
     IN Len(The(graphData).nodes) = Cardinality(values)

\* two kept rows sharing an endpoint: three endpoint cells, two nodes
C4_Witness ==
  /\ Published /\ AllObjects(The(data))
  /\ Cardinality(KeptRows) = 2
  /\ Len(The(graphData).nodes) = 2
  /\ The(graphData).links[1].source # The(graphData).links[1].target

\* C5: a row whose source or target is empty after coercion gives no node and
\* no edge, and raises no error: the node ids are the endpoints of the kept
\* rows and there is one edge per kept row.
C5_DropRule ==
  (Built /\ AllObjects(The(data))
     /\ ~(useDefaultColumns(sourceColumn, targetColumn)
            /\ Len(The(data)[1].fields) < MinDefaultColumns))
  => LET rows == The(data)
     IN /\ Published
        /\ error = None
        /\ NodeIds(The(graphData)) =
             {Coerced(Get(rows[i], srcColOf(rows, sourceColumn))) : i \in KeptRows}
             \cup
             {Coerced(Get(rows[i], tgtColOf(rows, targetColumn))) : i \in KeptRows}
        /\ Len(The(graphData).links) = Cardinality(KeptRows)

\* a dropped row with a non-empty source next to a kept row
C5_Witness ==
  /\ Published /\ AllObjects(The(data))
  /\ Len(The(data)) = 2
  /\ KeptRows = {2}
  /\ Coerced(Get(The(data)[1], srcColOf(The(data), sourceColumn))) = <<"A">>
  /\ NodeIds(The(graphData)) = {<<"B">>}
  /\ error = None

\* C6: with the three columns mapped, the edges are those of the kept rows,
\* each read from the mapped columns wherever they stand in the row; the
\* standard example gives 3 nodes and 2 edges.
C6_ExplicitMapping ==
  (Built /\ FullMapping /\ AllObjects(The(data)))
  => LET rows == The(data)
         kept == {i \in 1..Len(rows) :
                    Coerced(Get(rows[i], sourceColumn)) # <<>>
                    /\ Coerced(Get(rows[i], targetColumn)) # <<>>}
     IN /\ Published
        /\ Len(The(graphData).links) = Cardinality(kept)
        /\ \A j \in 1..Cardinality(kept) :
             LET row == rows[Nth(kept, j)]
                 link == The(graphData).links[j]
             IN /\ link.source = Coerced(Get(row, sourceColumn))
                /\ link.target = Coerced(Get(row, targetColumn))
                /\ link.type = CoercedType(Get(row, edgeTypeColumn))
        /\ (rows = StandardExample =>
              /\ NodeIds(The(graphData)) = {Alice, Bob, Charlie}
              /\ Len(The(graphData).nodes) = 3
              /\ The(graphData).links =
                   << [source |-> Alice, target |-> Bob, type |-> Friend,
                       value |-> LinkValue],
                      [source |-> Bob, target |-> Charlie, type |-> Colleague,
                       value |-> LinkValue] >>)

\* mapped columns that are not at the default positions
C6_Witness ==
  /\ Published /\ FullMapping
  /\ colNamesOf(The(data)) = HeaderRotated
  /\ Len(The(graphData).links) = 2
  /\ The(graphData).links[1].source = <<"x">>
  /\ The(graphData).links[1].target = <<"A">>
  /\ The(graphData).links[1].type = <<"B">>

C6_WitnessExample ==
  /\ Published /\ FullMapping
  /\ The(data) = StandardExample
  /\ Len(The(graphData).nodes) = 3

\* C17: with the source and the target column set and the type column
\* unset, every edge of the built graph has the type "default".
C17_UnsetTypeIsDefault ==
  (Published /\ sourceColumn # "" /\ targetColumn # "" /\ edgeTypeColumn = "")
  => \A i \in 1..Len(The(graphData).links) :
       The(graphData).links[i].type = DefaultEdgeType

\* C18: when one of the three column states is unset and the first row has
\* fewer than 3 fields, the build sets the column-count error and publishes
\* no graph.
C18_ColumnCountWhenAnyUnset ==
  [][(pendingBuild /\ ~pendingBuild' /\ ~IsNone(data) /\ ~FullMapping
        /\ The(data)[1].kind = "object"
        /\ Len(The(data)[1].fields) < 3)
     => (error' = <<ColumnCountMessage>> /\ graphData' = graphData
         /\ pendingRender' = pendingRender)]_vars

\* the cell is absent, null, or the empty string
NoValue(v) == v.t \in {"undefined", "null"} \/ (v.t = "string" /\ v.s = <<>>)

\* the rows whose source cell and target cell both hold a value
RowsWithEnds ==
  LET rows == The(data)
  IN {i \in 1..Len(rows) :
        /\ ~NoValue(Get(rows[i], srcColOf(rows, sourceColumn)))
        /\ ~NoValue(Get(rows[i], tgtColOf(rows, targetColumn)))}

\* C19: a source or target cell that is not absent, null or empty, the number
\* 0 and the boolean false included, is a node id in its string form and its
\* row is retained: the edges are the rows whose two end cells hold a value.
C19_ZeroAndFalseAreValues ==
  (Published /\ AllObjects(The(data)))
  => LET rows == The(data)
     IN /\ Len(The(graphData).links) = Cardinality(RowsWithEnds)
        /\ \A i \in RowsWithEnds :
             /\ String(Get(rows[i], srcColOf(rows, sourceColumn)))
                  \in NodeIds(The(graphData))
             /\ String(Get(rows[i], tgtColOf(rows, targetColumn)))
                  \in NodeIds(The(graphData))

\* C20: in a published graph the node ids are pairwise distinct, and the
\* source and the target of every edge are ids of its nodes.
C20_GraphWellFormed ==
  ~IsNone(graphData)
  => LET g == The(graphData)
     IN /\ \A i, j \in 1..Len(g.nodes) : g.nodes[i].id = g.nodes[j].id => i = j
        /\ \A i \in 1..Len(g.links) :
             /\ \E n \in 1..Len(g.nodes) : g.nodes[n].id = g.links[i].source
             /\ \E n \in 1..Len(g.nodes) : g.nodes[n].id = g.links[i].target

\* two edges that share a node, and an edge between two ids of one group
C20_Witness ==
  /\ Published
  /\ Len(The(graphData).links) = 2
  /\ Len(The(graphData).nodes) = 3
  /\ \E i \in 1..2 :
       /\ The(graphData).links[i].source = <<"A">>
       /\ The(graphData).links[i].target = <<"7">>

\* C28: the edges are the kept rows in row order, one edge per kept row:
\* duplicate rows and parallel edges are all kept, and a kept row whose
\* source equals its target gives one edge from the node to itself, the node
\* being in the node list once.
C28_EdgesAreKeptRows ==
  (Published /\ AllObjects(The(data)))
  => LET rows == The(data)
         g == The(graphData)
     IN /\ Len(g.links) = Cardinality(KeptRows)
        /\ \A j \in 1..Cardinality(KeptRows) :
             LET row == rows[Nth(KeptRows, j)]
             IN /\ g.links[j].source = Coerced(Get(row, srcColOf(rows, sourceColumn)))
                /\ g.links[j].target = Coerced(Get(row, tgtColOf(rows, targetColumn)))
        /\ \A j \in 1..Len(g.links) :
             g.links[j].source = g.links[j].target
             => Cardinality({n \in 1..Len(g.nodes) :
                               g.nodes[n].id = g.links[j].source}) = 1

\* the same row twice: two edges between the same two nodes
C28_Witness ==
  /\ Published /\ AllObjects(The(data))
  /\ Len(The(data)) = 2 /\ The(data)[1] = The(data)[2]
  /\ Len(The(graphData).links) = 2
  /\ The(graphData).links[1] = The(graphData).links[2]
  /\ Len(The(graphData).nodes) = 2

\* a single row from a node to itself: one node, one edge
C28_WitnessSelfLoop ==
  /\ Published /\ AllObjects(The(data))
  /\ Len(The(data)) = 1
  /\ Len(The(graphData).links) = 1
  /\ The(graphData).links[1].source = The(graphData).links[1].target
  /\ Len(The(graphData).nodes) = 1

----------------------------------------------------------------------------
(* The component from its mount on: the loads and the two effects *)

Init ==
  /\ data = None
  /\ columns = <<>>
  /\ sourceColumn = ""
  /\ targetColumn = ""
  /\ edgeTypeColumn = ""
  /\ graphData = None
  /\ pendingBuild = FALSE
  /\ mounted = "mounting"
  /\ InitRest

Next ==
  \/ \E q \in UrlParams : mountEffect(q)
  \/ \E f \in Files : handleFileUpload(f)
  \/ \E i \in 1..MaxReads : readerOnLoad(i)
  \/ \E i \in 1..MaxReads : readerOnError(i)
  \/ \E sampleFile \in Samples : loadSampleData(sampleFile)
  \/ \E sampleFile \in Samples : fetchResolved(sampleFile)
  \/ \E sampleFile \in Samples : fetchFailed(sampleFile)
  \/ \E p \in Payloads : loadFromJsonPayload(p)
  \/ ProcessData
  \/ RenderEffect

Spec == Init /\ [][Next]_vars

----------------------------------------------------------------------------
(* Claims of the loading handlers *)

\* the name ends in ".csv", whatever the case of its letters
EndsInCsv(name) ==
  LET n == Len(name)
  IN /\ n >= 4
     /\ name[n - 3] = "."
     /\ name[n - 2] \in {"c", "C"}
     /\ name[n - 1] \in {"s", "S"}
     /\ name[n] \in {"v", "V"}

LoadSucceeds == ~pendingBuild /\ pendingBuild'

\* C12: after a successful load (file, either sample, payload) the error state
\* is empty, whatever error was showing before.
C12_SuccessfulLoadClearsError ==
  [][LoadSucceeds => error' = None]_vars

\* a read in flight ends: with the text, or with an error
readerDone == \E i \in 1..MaxReads : readerOnLoad(i) \/ readerOnError(i)

\* a fetch in flight ends: it resolves, or it rejects
fetchDone ==
  \E sampleFile \in Samples : fetchResolved(sampleFile) \/ fetchFailed(sampleFile)

\* one input for each way a load can end
LiveFiles == {TextFile, UpperCsvFile, EmptyFile}
LivePayloads == {RowsPayload, BadJsonPayload, TwoKeysPayload}

NextLive ==
  \/ \E q \in UrlParams : mountEffect(q)
  \/ \E f \in LiveFiles : handleFileUpload(f)
  \/ readerDone
  \/ \E sampleFile \in Samples : loadSampleData(sampleFile)
  \/ fetchDone
  \/ \E p \in LivePayloads : loadFromJsonPayload(p)
  \/ ProcessData
  \/ RenderEffect

\* The browser delivers the end of every read and of every fetch.
SpecLive ==
  Init /\ [][NextLive]_vars /\ WF_vars(readerDone) /\ WF_vars(fetchDone)

\* C13: a load attempt that has set the loading indicator is followed by a
\* state in which the indicator is off, on every outcome.
C13_LoadingEventuallyCleared == loading ~> ~loading

\* each way a load ends has been seen with the indicator off
C13_Witness ==
  /\ ~loading /\ reader = <<>> /\ fetches = {}
  /\ error = <<ReadFailedMessage>>
  /\ ~IsNone(graphData)

\* the payload is (JSON for) a non-empty array of objects whose first row has
\* at least 3 keys
WellShaped(p) ==
  /\ p.isString => p.validJson
  /\ p.isArray
  /\ Len(p.rows) > 0
  /\ \A i \in 1..Len(p.rows) : p.rows[i].kind = "object"
  /\ Len(p.rows[1].fields) >= 3

\* C14: a payload that is not a non-empty array of objects, or whose first
\* row has fewer than 3 keys, is rejected: an error is set and the rows, the
\* columns and the published graph stay as they were.
C14_PayloadShapeRejected ==
  [][\A p \in Payloads :
       (loadFromJsonPayload(p) /\ ~WellShaped(p))
       => /\ error' # None
          /\ UNCHANGED <<data, columns, graphData, pendingBuild>>]_vars

StandardPath == "/src/data/classmates.csv"
AlternatePath == "/src/data/alternate-order.csv"

\* the fetch of the path has ended and its rows are installed
Loaded(path) == path \in fetches /\ path \notin fetches' /\ LoadSucceeds

\* C16: each sample is fetched from its fixed path; a successful load of the
\* standard sample sets the mapping to Source / Target / RelationshipType, one
\* of the alternate sample empties the mapping, whatever it was before.
C16_SampleMapping ==
  [][/\ loadSampleData(StandardSample) => fetches' = fetches \cup {StandardPath}
     /\ loadSampleData(AlternateSample) => fetches' = fetches \cup {AlternatePath}
     /\ Loaded(StandardPath)
        => /\ sourceColumn' = "Source"
           /\ targetColumn' = "Target"
           /\ edgeTypeColumn' = "RelationshipType"
     /\ Loaded(AlternatePath)
        => /\ sourceColumn' = ""
           /\ targetColumn' = ""
           /\ edgeTypeColumn' = ""]_vars

\* the alternate sample has just been loaded over the standard one, whose
\* graph and explicit mapping were in place
C16_Witness ==
  /\ pendingBuild /\ NoMapping
  /\ data = Some(SampleRows(AlternateSample))
  /\ ~IsNone(graphData)
  /\ \E i \in 1..Len(The(graphData).nodes) : The(graphData).nodes[i].id = Alice

\* the standard sample has just been loaded over the alternate one
C16_WitnessStandard ==
  /\ pendingBuild /\ FullMapping
  /\ data = Some(SampleRows(StandardSample))
  /\ ~IsNone(graphData)
  /\ \E i \in 1..Len(The(graphData).nodes) : The(graphData).nodes[i].id = Alex

----------------------------------------------------------------------------
(* Claims of the two effects together *)

\* the build effect runs on installed rows
BuildStep == pendingBuild /\ ~pendingBuild' /\ ~IsNone(data)

\* the render effect runs
RenderStep == pendingRender /\ ~pendingRender'

\* the build gets past its column-count guard
ReachesFold ==
  ~(sourceColumn = "" /\ targetColumn = ""
      /\ (The(data)[1].kind = "null" \/ Len(The(data)[1].fields) < 3))

\* reading a column of the row throws
RowThrows(rows) == \E i \in 1..Len(rows) : rows[i].kind = "null"

\* C21: a build whose fold over the rows throws sets the error to
\* "Error creating graph: <message>" and leaves the published graph and the
\* simulation; a graph is published only by a build that folded every row,
\* with one edge per kept row; the render effect starts a simulation only
\* when no build is due, on the nodes of the published graph.
C21_NoPartialGraph ==
  [][/\ (BuildStep /\ ReachesFold /\ RowThrows(The(data)))
        => /\ error' = <<GraphErrorPrefix, NullRowTypeError>>
           /\ graphData' = graphData
           /\ pendingRender' = pendingRender
           /\ simulation' = simulation
     /\ graphData' # graphData
        => /\ BuildStep /\ ~RowThrows(The(data))
           /\ Len(The(graphData').links) = Cardinality(KeptRows)
     /\ (RenderStep /\ ~IsNone(simulation'))
        => /\ ~pendingBuild
           /\ graphData' = graphData /\ ~IsNone(graphData)
           /\ Len(pos') = Len(The(graphData).nodes)]_vars

\* the fold threw on the second row, after a first row that gives an edge:
\* the graph of the earlier load is still the published one
C21_Witness ==
  /\ Quiet
  /\ error = <<GraphErrorPrefix, NullRowTypeError>>
  /\ Len(The(data)) = 2 /\ The(data)[2].kind = "null"
  /\ Coerced(FieldAt(The(data)[1], 1)) = Alex
  /\ ~IsNone(simulation)
  /\ NodeIds(The(graphData)) = {Alice, Bob, Charlie}

\* C26: whatever the URL's data parameter holds, the mount effect leaves
\* the error state empty: a failure of the URL-decoding, of the JSON parsing
\* or of the shape check of the decoded payload is logged only.
C26_UrlFailureOnlyLogged ==
  [][\A q \in UrlParams : mountEffect(q) => error' = None]_vars

\* the published graph is the one of the installed rows
GraphOfInstalledRows ==
  /\ ~IsNone(graphData)
  /\ Len(The(graphData).links) = Cardinality(KeptRows)
  /\ \A j \in 1..Cardinality(KeptRows) :
       LET rows == The(data)
           row == rows[Nth(KeptRows, j)]
           link == The(graphData).links[j]
       IN /\ link.source = Coerced(Get(row, srcColOf(rows, sourceColumn)))
          /\ link.target = Coerced(Get(row, tgtColOf(rows, targetColumn)))

\* C27: while an error is set, of whatever kind, the installed rows and
\* columns are those of the published graph: a load that ended in an error
\* has left no new rows next to the graph of the rows before it.
C27_FailedLoadKeepsData ==
  (Quiet /\ error # None /\ ~IsNone(data))
  => /\ GraphOfInstalledRows
     /\ columns = colNamesOf(The(data))

----------------------------------------------------------------------------
(* A rendered graph under pointer events: legend clicks, hover, the toggle *)

TypeX == <<"x">>
TypeY == <<"y">>
TypeUnderscore == <<"a", "_", "b">>
TypeSpace == <<"a", " ", "b">>

\* a row of the standard header: source, type, target
Edge(source, type, target) ==
  MakeRow(HeaderStandard, <<StrV(source), StrV(type), StrV(target)>>)

ViewDatasets ==
  { << Edge(<<"A">>, TypeX, <<"B">>), Edge(<<"B">>, TypeY, <<"C">>) >>,
    << Edge(<<"A">>, TypeUnderscore, <<"B">>), Edge(<<"B">>, TypeX, <<"C">>) >>,
    << Edge(<<"A">>, TypeSpace, <<"B">>), Edge(<<"B">>, TypeX, <<"C">>) >>,
    << Edge(<<"A">>, TypeSpace, <<"B">>), Edge(<<"B">>, TypeUnderscore, <<"C">>) >>,
    << MakeRow(HeaderStandard, <<StrV(<<"A">>), NumV(<<"2">>), StrV(<<"B">>)>>),
       MakeRow(HeaderStandard, <<StrV(<<"B">>), NumV(<<"1">>), StrV(<<"C">>)>>) >> }

\* rows have been installed with no mapping; the build effect is due
InitView ==
  /\ \E rows \in ViewDatasets :
       /\ data = Some(rows)
       /\ columns = colNamesOf(rows)
  /\ sourceColumn = ""
  /\ targetColumn = ""
  /\ edgeTypeColumn = ""
  /\ graphData = None
  /\ pendingBuild = TRUE
  /\ mounted = "mounted"
  /\ InitRest

LegendEntries ==
  IF IsNone(graphData) THEN {} ELSE 1..Len(legendData(The(graphData)))

NextView ==
  \/ ProcessData
  \/ RenderEffect
  \/ \E i \in LegendEntries : legendClick(i)
  \/ \E i \in 1..Len(linkAttr) : linkMouseOver(i)
  \/ linkMouseOut
  \/ \E n \in 1..Len(nodeOpacity) : nodeMouseOver(n)
  \/ nodeMouseOut
  \/ toggleDirected

SpecView == InitView /\ [][NextView]_vars

\* the filter state
Idle == IsNone(highlightedType)
TypeFiltered(T) == highlightedType = Some(T)

\* C8: from Idle, a click on a legend entry followed by a click on the same
\* entry leaves the filter Idle and every edge and node at the stroke width
\* and opacity it had before the first click (read once the pointer is over
\* no link and no node, before and after the re-render).
C8_ToggleTwiceRestores ==
  (Len(clicks) = 2 /\ clicks[1].entry = clicks[2].entry /\ IsNone(hover))
  => /\ Idle
     /\ linkAttr = clicks[1].linkAttr
     /\ nodeOpacity = clicks[1].nodeOpacity

\* the second click found the filter's styles on display, the re-render is done
C8_Witness ==
  /\ Len(clicks) = 2 /\ clicks[1].entry = clicks[2].entry
  /\ Quiet /\ IsNone(hover) /\ Idle
  /\ clicks[2].linkAttr # clicks[1].linkAttr
  /\ clicks[2].nodeOpacity # clicks[1].nodeOpacity
  /\ linkAttr = clicks[1].linkAttr

\* C9: a click on the legend entry of type T gives Idle when the filter is
\* TypeFiltered(T), and TypeFiltered(T) otherwise (from Idle, or directly from
\* TypeFiltered(U) for another type U).
C9_FilterStateMachine ==
  [][\A i \in LegendEntries :
       legendClick(i)
       => LET T == ObjectEntries(relationshipColors(The(graphData)))[i].type
          IN IF TypeFiltered(T) THEN highlightedType' = None
             ELSE highlightedType' = Some(T)]_vars

\* C10: while the filter is TypeFiltered(T) and nothing is hovered, also after
\* the re-render the click triggers, the edges of type T and their endpoints
\* are at full opacity, every other edge at the low opacity and every other
\* node dimmed.
C10_FilterShownWhileActive ==
  (Quiet /\ ~IsNone(view) /\ ~Idle /\ IsNone(hover))
  => LET g == The(graphData)
         T == The(highlightedType)
     IN /\ \A i \in 1..Len(g.links) :
             linkAttr[i].opacity =
               IF g.links[i].type = T THEN FullOpacity ELSE LowLinkOpacity
        /\ \A n \in 1..Len(g.nodes) :
             nodeOpacity[n] =
               IF \E i \in 1..Len(g.links) :
                    g.links[i].type = T /\ touches(g.links[i], g.nodes[n].id)
               THEN FullOpacity ELSE DimNodeOpacity

\* the indices of the edges whose type no earlier edge has
FirstSeen(g) ==
  {i \in 1..Len(g.links) : \A j \in 1..(i - 1) : g.links[j].type # g.links[i].type}

\* the k-th smallest element of a set of numbers
KthOf(S, k) == CHOOSE i \in S : Cardinality({j \in S : j < i}) = k - 1

\* C15: the legend has one entry per distinct edge type, in the order in
\* which the types are first seen in the edge sequence, and the i-th
\* distinct type (0-based) has palette colour i mod 15.
C15_LegendFirstSeenOrder ==
  (Quiet /\ ~IsNone(view))
  => LET g == The(graphData)
         legend == legendData(g)
     IN /\ Len(legend) = Cardinality(FirstSeen(g))
        /\ \A k \in 1..Len(legend) :
             /\ legend[k].type = replace(g.links[KthOf(FirstSeen(g), k)].type, "_", " ")
             /\ legend[k].color = (k - 1) % 15

\* every edge and node has the stroke width and opacity that the active
\* filter prescribes for it
FilterStylesShown ==
  LET g == The(graphData)
      T == The(highlightedType)
  IN /\ \A i \in 1..Len(g.links) :
          linkAttr[i] =
            IF g.links[i].type = T
            THEN [width |-> MatchLinkWidth, opacity |-> FullOpacity]
            ELSE [width |-> OtherLinkWidth, opacity |-> LowLinkOpacity]
     /\ \A n \in 1..Len(g.nodes) :
          nodeOpacity[n] =
            IF \E i \in 1..Len(g.links) :
                 g.links[i].type = T /\ touches(g.links[i], g.nodes[n].id)
            THEN FullOpacity ELSE DimNodeOpacity

\* C11: while a type filter is active, the hover-out that follows a hover-in
\* on a node or on an edge leaves every edge and node, the hovered edge
\* included, at the width and opacity the filter prescribes.
C11_HoverOutReappliesFilter ==
  [][((linkMouseOut \/ nodeMouseOut) /\ ~Idle) => FilterStylesShown']_vars

----------------------------------------------------------------------------
(* A rendered graph under the simulation: ticks, the drag of a node *)

SimRows == << Edge(<<"A">>, TypeX, <<"B">>) >>
SelfLoopRows == << Edge(<<"A">>, TypeUnderscore, <<"A">>) >>
SimDatasets == {SimRows, SelfLoopRows}

InitSim ==
  /\ \E rows \in SimDatasets :
       /\ data = Some(rows)
       /\ columns = colNamesOf(rows)
  /\ sourceColumn = ""
  /\ targetColumn = ""
  /\ edgeTypeColumn = ""
  /\ graphData = None
  /\ pendingBuild = TRUE
  /\ mounted = "mounted"
  /\ InitRest

\* the rows of the graph on display, handed to window.loadGraphData again
SimPayload == Payload(FALSE, TRUE, TRUE, The(data))

NextSim ==
  \/ ProcessData
  \/ RenderEffect
  \/ loadFromJsonPayload(SimPayload)
  \/ \E i \in LegendEntries : legendClick(i)
  \/ Tick
  \/ \E i \in 1..Len(pos) : dragstarted(i)
  \/ \E p \in Points : dragged(p)
  \/ dragended
  \/ toggleDirected
  \/ unmount

SpecSim == InitSim /\ [][NextSim]_vars

\* a tick of the current render has run
Ticked == ~IsNone(view) /\ The(view).ticked

InX(i) == Margin <= pos[i].x /\ pos[i].x <= The(view).width - Margin
InY(i) == Margin <= pos[i].y /\ pos[i].y <= Height - Margin

\* C7 as stated: after a tick every node, pinned or not, has
\* 20 <= x <= width-20 and 20 <= y <= height-20, for every canvas width.
C7_AllNodesInBounds ==
  Ticked => \A i \in 1..Len(pos) : InX(i) /\ InY(i)

\* C7: after a tick every node, pinned or not, has 20 <= y <= height-20, and
\* 20 <= x <= width-20 when the canvas is at least 40 wide; on a narrower
\* canvas every node has x = 20.
C7_InBoundsOnWideCanvas ==
  Ticked => \A i \in 1..Len(pos) :
              /\ InY(i)
              /\ IF The(view).width >= 2 * Margin THEN InX(i)
                 ELSE pos[i].x = Margin

\* a node is held by a drag beyond the right edge, the other one is free
C7_Witness ==
  /\ Ticked /\ The(view).width = 300
  /\ \E i, j \in 1..Len(pos) :
       /\ Pinned(i) /\ The(pos[i].fx) = 600 /\ pos[i].x = 280
       /\ ~Pinned(j) /\ pos[j].y = 680

\* the simulation of the torn-down render whose gesture is in progress
StoppedSimulation == The(The(held).stopped).simulation

\* the x or y of some node changes
Moves == \E i \in 1..Len(pos) : i \in 1..Len(pos') /\
                                 (pos'[i].x # pos[i].x \/ pos'[i].y # pos[i].y)

\* the render effect is torn down: it runs again, or the view is unmounted
TornDown == RenderStep \/ (mounted = "mounted" /\ mounted' = "unmounted")

\* C22: when the render effect is torn down (by a new graph, a change of
\* the filter or of the mode, or the unmount) while a gesture of its render
\* is in progress, its simulation is stopped; whatever drag events of that
\* gesture follow, the stopped simulation is not started again and does not
\* tick: while the gesture lasts, a node only moves by a tick of the
\* simulation of the current render, and after the unmount no node moves.
C22_StoppedStaysStopped ==
  [][/\ (TornDown /\ ~IsNone(held) /\ ~Stale /\ ~IsNone(simulation))
        => (Stale' /\ ~StoppedSimulation'.running)
     /\ Stale => ~StoppedSimulation.running
     /\ (Stale /\ Stale') => StoppedSimulation' = StoppedSimulation
     /\ (Stale /\ Moves)
        => /\ mounted = "mounted"
           /\ The(simulation).running
           /\ The(view').ticked
           /\ \A i \in 1..Len(pos) :
                pos'[i].x \in {Margin, The(view).width - Margin,
                               IF Pinned(i) THEN The(pos[i].fx) ELSE pos'[i].x}
     /\ mounted' = "unmounted" => (~Moves /\ IsNone(simulation'))]_vars

\* the mode was toggled during a drag: the pointer has since moved the pin
\* and the simulation of the new render has ticked
C22_Witness ==
  /\ Quiet /\ Stale
  /\ The(held).node # Detached
  /\ StoppedSimulation = [alphaTarget |-> DragAlphaTarget, running |-> FALSE]
  /\ The(pos[The(held).node].fx) = 600
  /\ Ticked /\ The(view).width = 500
  /\ pos[The(held).node].x = 480

\* the graph was replaced during a drag: the gesture holds a node of the
\* old graph, and the new graph has been rendered
C22_WitnessReplaced ==
  /\ Quiet /\ Stale
  /\ The(held).node = Detached
  /\ ~StoppedSimulation.running
  /\ Ticked

\* the view was unmounted during a drag, and the pointer has moved the pin
C22_WitnessUnmounted ==
  /\ mounted = "unmounted" /\ Stale
  /\ The(held).node # Detached
  /\ StoppedSimulation = [alphaTarget |-> DragAlphaTarget, running |-> FALSE]
  /\ The(pos[The(held).node].fx) = 600
  /\ pos[The(held).node].x # 600

\* the render effect runs again on the graph and in the mode it last ran on:
\* only the filter has changed
FilterRenderStep ==
  /\ RenderStep
  /\ ~IsNone(view) /\ pos # <<>>
  /\ The(view).directed = directedEdges

\* C23: a legend click, a hover, and the re-render that a change of the
\* filter triggers leave the simulation as it is (not stopped, not created
\* again, not reheated) and every node where it is.
C23_FilterKeepsSimulation ==
  [][((\E i \in LegendEntries : legendClick(i))
        \/ (\E i \in 1..Len(linkAttr) : linkMouseOver(i)) \/ linkMouseOut
        \/ (\E n \in 1..Len(nodeOpacity) : nodeMouseOver(n)) \/ nodeMouseOut
        \/ FilterRenderStep)
     => (simulation' = simulation /\ pos' = pos)]_vars

\* the node has a pin
HasPin(i) == ~IsNone(pos[i].fx) \/ ~IsNone(pos[i].fy)

C25_PinnedHoldsPointer ==
  [][Tick => \A i \in 1..Len(pos) :
               Pinned(i) => /\ pos'[i].x = The(pos[i].fx)
                            /\ pos'[i].y = The(pos[i].fy)]_vars

\* C29: the node records of the published graph have the fields id and
\* group and no others, and the source and target of its edges are strings,
\* also after the render effect has handed the graph to a simulation and
\* after ticks.
C29_GraphNotMutated ==
  (Settled /\ ~IsNone(graphData))
  => /\ \A i \in 1..Len(The(graphData).nodes) : nodeKeys(i) = {"id", "group"}
     /\ \A i \in 1..Len(The(graphData).links) : linkEndType(i) = "string"

\* the places of the two ends of the i-th edge
EndsOf(i) ==
  LET g == The(graphData)
  IN [source |-> pos[CHOOSE n \in 1..Len(g.nodes) : g.nodes[n].id = g.links[i].source],
      target |-> pos[CHOOSE n \in 1..Len(g.nodes) : g.nodes[n].id = g.links[i].target]]

C30_WitnessCoincide ==
  /\ Quiet /\ Ticked /\ directedEdges
  /\ Len(The(graphData).nodes) = 2
  /\ linkPathOf(1).from = linkPathOf(1).to
  /\ linkPathOf(1).radiusSquared = 1

\* directed mode, an edge from a node to itself
C30_WitnessSelfLoop ==
  /\ Quiet /\ Ticked /\ directedEdges
  /\ Len(The(graphData).nodes) = 1
  /\ linkPathOf(1) = [command |-> "A", radiusSquared |-> 1,
                       from |-> <<280, 680>>, to |-> <<280, 680>>]
  /\ markerEnd(TRUE, The(graphData).links[1].type)
       = Some(<<"a", "r", "r", "o", "w", "-", "a", "-", "b">>)

----------------------------------------------------------------------------
(* Claims of the node groups *)

\* C31: in every published graph each node's id is non-empty and its group
\* is the character code of the id's first character modulo 5, plus 1, a
\* number in 1..5; from one published graph to the next an id that is in
\* both has the same group in both.
C31_GroupOfFirstChar ==
  /\ [](~IsNone(graphData)
        => \A i \in 1..Len(The(graphData).nodes) :
             LET n == The(graphData).nodes[i]
             IN /\ n.id # <<>>
                /\ n.group = (charCodeAt0(n.id) % 5) + 1
                /\ n.group \in 1..5)
  /\ [][(~IsNone(graphData) /\ ~IsNone(graphData'))
        => \A i \in 1..Len(The(graphData).nodes) :
             \A j \in 1..Len(The(graphData').nodes) :
               The(graphData).nodes[i].id = The(graphData').nodes[j].id
               => The(graphData).nodes[i].group = The(graphData').nodes[j].group]_vars

\* the uploaded example is published: the ids Alice, Bob and Charlie in the
\* groups 1, 2 and 3 (Alice and Bob are also the ids of the standard sample)
C31_Witness ==
  /\ Published
  /\ Len(The(graphData).nodes) = 3
  /\ The(graphData).nodes[1] = [id |-> Alice, group |-> 1]
  /\ The(graphData).nodes[2] = [id |-> Bob, group |-> 2]
  /\ The(graphData).nodes[3] = [id |-> Charlie, group |-> 3]

----------------------------------------------------------------------------
(* Claims of the simulations of successive renders *)

\* no node has been moved since forceSimulation placed it: no simulation has
\* ticked, so none has cooled down
NeverTicked ==
  pos # <<>> /\ \A i \in 1..Len(pos) : pos[i] = InitialPlace(i)

\* C32: at every moment no simulation of an earlier run of the render effect
\* has a timer that still runs (each was stopped by the cleanup before the
\* next run created its own, or by the unmount), the one a drag gesture
\* still holds included; so the only simulation that can run is the one of
\* the current render, and after the unmount there is none.
C32_OneLiveSimulation ==
  /\ ~leaked
  /\ Stale => ~StoppedSimulation.running
  /\ mounted = "unmounted" => IsNone(simulation)

\* a legend click made the render effect run again while the simulation of
\* the first render was still running; the new render's simulation runs
C32_Witness ==
  /\ Quiet /\ NeverTicked
  /\ ~IsNone(view) /\ ~IsNone(The(view).type)
  /\ ~IsNone(simulation) /\ The(simulation).running

\* the view was unmounted while its simulation was still running
C32_WitnessUnmounted ==
  /\ mounted = "unmounted" /\ NeverTicked
  /\ IsNone(held)

----------------------------------------------------------------------------
(* Claims of the mapping across loads *)

\* the names in the column list
ColumnSet == {columns[i] : i \in 1..Len(columns)}

\* C33: every mapping column that is set (source, target, type) is one of
\* the columns of the loaded data.
C33_MappingWithinColumns ==
  \A c \in {sourceColumn, targetColumn, edgeTypeColumn} :
    c # "" => c \in ColumnSet

----------------------------------------------------------------------------
(* Claims of the legend labels and of the filter across graphs *)

\* the type of the i-th legend entry, as the edges carry it
TypeOfEntry(i) == ObjectEntries(relationshipColors(The(graphData)))[i].type

\* C34: a click, from Idle, on the legend entry shown for type T sets the
\* filter to exactly T, which is the type of at least one edge: the type
\* read back from the entry's label is the type the label was made from.
C34_LabelRoundTrip ==
  [][\A i \in LegendEntries :
       (Idle /\ legendClick(i))
       => /\ clickedType(legendData(The(graphData))[i].type) = TypeOfEntry(i)
          /\ highlightedType' = Some(TypeOfEntry(i))
          /\ \E j \in 1..Len(The(graphData).links) :
               Some(The(graphData).links[j].type) = highlightedType']_vars

\* The filter across graphs: a graph is on display, the legend is clicked and
\* other rows are handed to window.loadGraphData. The types of these rows
\* hold no space: a click sets the filter to the type of the entry.
FilterDatasets ==
  { << Edge(<<"A">>, TypeX, <<"B">>), Edge(<<"B">>, TypeY, <<"C">>) >>,
    << Edge(<<"A">>, TypeUnderscore, <<"B">>), Edge(<<"B">>, TypeX, <<"C">>) >>,
    << Edge(<<"A">>, TypeY, <<"A">>) >> }

InitFilter ==
  /\ \E rows \in FilterDatasets :
       /\ data = Some(rows)
       /\ columns = colNamesOf(rows)
  /\ sourceColumn = ""
  /\ targetColumn = ""
  /\ edgeTypeColumn = ""
  /\ graphData = None
  /\ pendingBuild = TRUE
  /\ mounted = "mounted"
  /\ InitRest

NextFilter ==
  \/ ProcessData
  \/ RenderEffect
  \/ \E i \in LegendEntries : legendClick(i)
  \/ \E rows \in FilterDatasets : loadFromJsonPayload(Payload(FALSE, TRUE, TRUE, rows))

SpecFilter == InitFilter /\ [][NextFilter]_vars

\* C35: whenever the filter is TypeFiltered(T) and a graph is published, T
\* is the type of at least one of its edges (a graph that replaces another
\* finds the filter Idle, or on a type of its own).
C35_FilterTypeInGraph ==
  (~Idle /\ ~IsNone(graphData))
  => \E j \in 1..Len(The(graphData).links) :
       The(graphData).links[j].type = The(highlightedType)

----------------------------------------------------------------------------
(* Claims of overlapping loads *)

\* a read or a fetch completes and installs its rows
InstallStep ==
  /\ \/ \E i \in 1..Len(reader) : readerOnLoad(i)
     \/ \E sampleFile \in Samples : fetchResolved(sampleFile)
  /\ pendingBuild'

NothingInFlight == reader = <<>> /\ fetches = {}

\* C36: when the last of the loads in flight completes and installs its
\* rows, with no error on display, the rows and the columns installed are
\* those of the load that was requested last.
C36_LastRequestWins ==
  [][(InstallStep /\ NothingInFlight' /\ IsNone(error'))
       => /\ data' = requested
          /\ columns' = colNamesOf(The(requested))]_vars

\* C37: while a read or a fetch is in flight the loading indicator is on.
C37_LoadingWhileInFlight == ~NothingInFlight => loading

----------------------------------------------------------------------------
(* Claims of the graph on display *)

\* C38: once the effects have run, a graph that is on display is the build
\* of the loaded rows under the mapping in force: unless that build throws
\* on a row, it passes the column-count guard, gives a graph, and this graph
\* is the published one.
C38_DisplayedGraphIsCurrent ==
  (Settled /\ ~IsNone(graphData) /\ ~IsNone(data))
  => LET outcome == BuildOutcome(The(data), sourceColumn, targetColumn,
                                 edgeTypeColumn)
     IN outcome.kind # "thrown"
        => /\ outcome.kind = "graph"
           /\ The(graphData) = GraphOf(outcome)

----------------------------------------------------------------------------
(* Zoom and pan *)

\* the transforms a wheel or pan gesture may end on (scaleExtent keeps the
\* scale between 0.1 and 8)
Transforms ==
  { zoomIdentity, [k |-> 20, x |-> 0, y |-> 0], [k |-> 10, x |-> 30, y |-> -20] }

\* zoom.on("zoom"): the behaviour stores the gesture's transform on the svg
\* and the listener writes it to the group
zoomed(t) ==
  /\ Quiet
  /\ ~IsNone(view)
  /\ zoomTransform' = Some(t)
  /\ groupTransform' = Some(t)
  /\ UNCHANGED <<reactState, asyncState, pendingBuild, pendingRender, view,
                 linkAttr, nodeOpacity, hover, simState, clicks>>

NextZoom ==
  \/ ProcessData
  \/ RenderEffect
  \/ loadFromJsonPayload(SimPayload)
  \/ \E i \in LegendEntries : legendClick(i)
  \/ toggleDirected
  \/ \E t \in Transforms : zoomed(t)

SpecZoom == InitSim /\ [][NextZoom]_vars

\* the transform the drawing group is drawn under: a group without the
\* attribute is drawn under the identity
shownTransform ==
  IF IsNone(groupTransform) THEN zoomIdentity ELSE The(groupTransform)

\* C39: while a render is on display, the transform the drawing group is
\* drawn under is the transform the zoom behaviour keeps on the svg.
C39_GroupFollowsZoom ==
  (Settled /\ ~IsNone(view)) => Some(shownTransform) = zoomTransform

----------------------------------------------------------------------------
(* Claims of the arrow markers *)

\* the markers of a directed render in document order: one per entry of
\* relationshipColors, with its id and its fill
markers(g) ==
  [k \in 1..Len(relationshipTypes(g)) |->
     [id |-> markerId(ObjectEntries(relationshipColors(g))[k].type),
      fill |-> ObjectEntries(relationshipColors(g))[k].color]]

\* relationshipColors[d.type]: the stroke of an edge of the type
strokeOf(g, type) ==
  relationshipColors(g)[CHOOSE i \in 1..Len(relationshipTypes(g)) :
                          relationshipColors(g)[i].type = type].color

\* C40: in a directed render two different edge types have different
\* marker ids, and every marker that carries the id an edge refers to has
\* the colour of that edge's type.
C40_MarkerPerType ==
  (Settled /\ ~IsNone(view) /\ The(view).directed)
  => LET g == The(graphData)
     IN /\ \A i, j \in 1..Len(relationshipTypes(g)) :
             i # j => markerId(relationshipTypes(g)[i])
                        # markerId(relationshipTypes(g)[j])
        /\ \A l \in 1..Len(g.links) : \A k \in 1..Len(markers(g)) :
             Some(markers(g)[k].id) = markerEnd(TRUE, g.links[l].type)
             => markers(g)[k].fill = strokeOf(g, g.links[l].type)

====
